---- MODULE Spec2Model ----
(***************************************************************************)
(* Model of nickmass/webhooks: the HTTP receiver (server), the command     *)
(* codec (config) and the executor (dispatch), joined by a named pipe.     *)
(*                                                                         *)
(* Strings are sequences of tokens: a token is either one special          *)
(* character (" ", ":", "/", "\n") or an atomic run of other characters    *)
(* ("deploy", "site", "..").  Option values are sequences of length <= 1.  *)
(***************************************************************************)
EXTENDS Integers, Sequences, FiniteSets, TLC

(* ------------------------------ bounds -------------------------------- *)

\* number of HTTP requests the server receives (each uses writer session r)
NReq == 2
\* number of writer sessions the pipe sees (requests or other local writers)
NSes == 3

Reqs == 1..NReq
Sessions == 1..NSes

(* ------------------------------ options ------------------------------- *)

None == << >>
Some(x) == <<x>>
IsSome(o) == Len(o) = 1
Unwrap(o) == o[1]

(* --------------------------- config crate ----------------------------- *)

\* enum Action { Deploy }
Action == {"Deploy"}

\* impl Display for Action
ActionDisplay(a) == IF a = "Deploy" THEN <<"deploy">> ELSE <<"?">>

\* impl Display for Command: "{} {}"
CommandDisplay(cmd) == ActionDisplay(cmd.action) \o <<" ">> \o cmd.project

\* str::split_once(" "): index of the first separator, 0 when there is none
FirstIndex(s, tok) ==
  IF \E i \in 1..Len(s) : s[i] = tok
    THEN CHOOSE i \in 1..Len(s) : s[i] = tok /\ \A j \in 1..(i - 1) : s[j] # tok
    ELSE 0

\* index of the last separator, 0 when there is none
LastIndex(s, tok) ==
  IF \E i \in 1..Len(s) : s[i] = tok
    THEN CHOOSE i \in 1..Len(s) :
           s[i] = tok /\ \A j \in (i + 1)..Len(s) : s[j] # tok
    ELSE 0

\* faulty variant of from_str: splits at the last separator (rsplit_once)
from_str_rsplit(s) ==
  LET i == LastIndex(s, " ") IN
  IF i = 0 THEN None
  ELSE LET action == SubSeq(s, 1, i - 1)
           project == SubSeq(s, i + 1, Len(s))
       IN IF action = <<"deploy">>
            THEN Some([action |-> "Deploy", project |-> project])
            ELSE None

\* impl FromStr for Command: None stands for Err(CommandParseError)
from_str(s) ==
  LET i == FirstIndex(s, " ") IN
  IF i = 0 THEN None
  ELSE LET action == SubSeq(s, 1, i - 1)
           project == SubSeq(s, i + 1, Len(s))
       IN IF action = <<"deploy">>
            THEN Some([action |-> "Deploy", project |-> project])
            ELSE None

\* longest project or line handed to Display / FromStr on their own
MaxText == 3

TextTokens == {"deploy", "Deploy", "a", " ", "\n"}

\* every text of at most MaxText tokens
Texts == UNION {[1..n -> TextTokens] : n \in 0..MaxText}

(* ------------------------- client registries -------------------------- *)

ClientCfg(secret, project, permissions) ==
  [secret |-> secret, project |-> project, permissions |-> permissions]

\* Config.clients: the registries the model is run with
Registries ==
  { [n \in {<<"acme">>, <<"bob">>} |->
       IF n = <<"acme">> THEN ClientCfg("s3cret", <<"site">>, {"Deploy"})
                         ELSE ClientCfg("hunter2", <<"blog">>, {})],
    [n \in {<<"acme">>, <<"bob">>} |->
       IF n = <<"acme">> THEN ClientCfg("s3cret", <<"site">>, {})
                         ELSE ClientCfg("hunter2", <<"blog">>, {"Deploy"})],
    [n \in {<<"acme">>, <<"bob">>} |->
       IF n = <<"acme">> THEN ClientCfg("s3cret", <<"..">>, {"Deploy"})
                         ELSE ClientCfg("hunter2", <<"/", "bin">>, {"Deploy"})],
    [n \in {<<"acme">>, <<"bob">>} |->
       IF n = <<"acme">>
         THEN ClientCfg("s3cret", <<"site", "\n", "deploy", " ", "blog">>,
                        {"Deploy"})
         ELSE ClientCfg("hunter2", <<"blog">>, {})] }

\* DispatchConfig.scripts_dir, as a path: absolute, with its components
scripts_dir == [abs |-> TRUE, comps |-> << <<"srv">> >>]

(* ---------------------------- HTTP requests --------------------------- *)

\* request bodies: a byte sequence, or a stream that fails while being read
Bytes == { << >>, <<"x">> }
Bodies == [ok : {TRUE}, bytes : Bytes] \cup {[ok |-> FALSE, bytes |-> << >>]}

\* hmac_sha256::HMAC::mac, idealised: one value per (message, key), no collisions
HMAC(bytes, key) == [msg |-> bytes, key |-> key]

\* a header value that renders a MAC: prefix, then the digest in hex; str
\* says whether the value is visible ASCII (HeaderValue::to_str succeeds)
SigText(prefix, hexcase, mac) ==
  [str |-> TRUE, prefix |-> prefix, hexcase |-> hexcase, mac |-> mac]

\* "sha256=" followed by {:02x} of every byte of the MAC
expected_signature(bytes, key) == SigText("sha256=", "lower", HMAC(bytes, key))

Header(v) == [present |-> TRUE, value |-> v]
NoSigHeader == [present |-> FALSE, value |-> SigText("", "lower", HMAC(<< >>, ""))]

SigHeaders ==
  {NoSigHeader}
  \cup {Header(expected_signature(b, "s3cret")) : b \in Bytes}
  \cup {Header(expected_signature(<< >>, "hunter2")),
        Header(SigText("sha256=", "upper", HMAC(<< >>, "s3cret"))),
        Header(SigText("", "lower", HMAC(<< >>, "s3cret")))}

\* an Authorization value: scheme prefix, then base64 text; str says whether
\* the value is visible ASCII, b64 whether the text decodes, utf8 whether the
\* decoded bytes are UTF-8, text is the decoded credential
AuthText(prefix, b64, utf8, text) ==
  [str |-> TRUE, prefix |-> prefix, b64 |-> b64, utf8 |-> utf8, text |-> text]

NoAuthHeader == [present |-> FALSE, value |-> AuthText("", FALSE, FALSE, << >>)]

AuthHeaders ==
  {NoAuthHeader}
  \cup {Header(AuthText("Basic ", TRUE, TRUE, t)) :
          t \in {<<"acme", ":">>, <<"acme">>, <<"bob", ":">>, <<"zed", ":">>}}
  \cup {Header(AuthText("Bearer ", TRUE, TRUE, <<"acme", ":">>)),
        Header(AuthText("Basic ", FALSE, FALSE, << >>))}

Requests == [auth : AuthHeaders, sig : SigHeaders, body : Bodies]

\* str::strip_suffix(":").unwrap_or(&client)
strip_suffix(s, tok) ==
  IF Len(s) > 0 /\ s[Len(s)] = tok THEN SubSeq(s, 1, Len(s) - 1) ELSE s

(* ------------------------------- state -------------------------------- *)

VARIABLES
  clients,      \* Config.clients, loaded once by both processes
  req,          \* per request: what was received and what was answered
  ses,          \* per writer session: its progress on the pipe
  pipeReaders,  \* read ends of the FIFO that are open (or being opened)
  pipeWriters,  \* write ends of the FIFO that are open
  pipeBuf,      \* chunks in the FIFO, oldest first: [ses, bytes]
  wseen,        \* a writer has opened the FIFO since the reader began to open
  pathExists,   \* the FIFO's path can still be opened
  pc,           \* executor: where main is
  rbuf,         \* executor: BufReader's buffered bytes
  rown,         \* for each "\n" in rbuf, the session that wrote it
  survived,     \* executor: the events its loop has been through so far
  child,        \* executor: the process being waited for, if any
  execPath,     \* executor: the last path handed to process execution
  log,          \* executor: the last event it logged
  delivered,    \* sessions whose chunk the executor has read from the FIFO
  handled,      \* sessions a line of which the loop has taken up
  lost,         \* sessions whose chunk was discarded with the FIFO's buffer
  codec         \* a Command and its text on their way through Display/FromStr

vars == <<clients, req, ses, pipeReaders, pipeWriters, pipeBuf, wseen,
          pathExists, pc, rbuf, rown, survived, child, execPath, log,
          delivered, handled, lost, codec>>

pipeVars == <<pipeReaders, pipeWriters, pipeBuf, wseen, lost>>
execVars == <<pc, rbuf, rown, survived, child, execPath, log, delivered,
              handled>>

NoRequest == [auth |-> NoAuthHeader, sig |-> NoSigHeader,
              body |-> [ok |-> TRUE, bytes |-> << >>]]

\* replay: the request is a copy of one whose command was already delivered;
\* steps: the bytes the signature comparison looked at
IdleReq == [st |-> "idle", msg |-> NoRequest, looked |-> FALSE,
            authed |-> None, resp |-> 0, result |-> "none", replay |-> FALSE,
            steps |-> 0]

\* after: what the executor's loop had been through when the line was written;
\* appended: how many times the session's line was put on the pipe
IdleSes == [phase |-> "idle", owner |-> "none", line |-> << >>,
            result |-> "none", after |-> {}, appended |-> 0]

\* kind: whether the text was formatted from a Command or is an arbitrary line
IdleCodec == [st |-> "idle", kind |-> "none",
              cmd |-> [action |-> "Deploy", project |-> << >>],
              text |-> << >>, parsed |-> None]

Init ==
  /\ clients \in Registries
  /\ codec = IdleCodec
  /\ req = [r \in Reqs |-> IdleReq]
  /\ ses = [w \in Sessions |-> IdleSes]
  /\ pipeReaders = 0
  /\ pipeWriters = 0
  /\ pipeBuf = << >>
  /\ wseen = FALSE
  /\ pathExists = TRUE
  /\ pc = "start"
  /\ rbuf = << >>
  /\ rown = << >>
  /\ survived = {}
  /\ child = None
  /\ execPath = None
  /\ log = "none"
  /\ delivered = {}
  /\ handled = {}
  /\ lost = {}

(* ------------------------------- server ------------------------------- *)

\* faulty variant of client_lookup: the credential is looked up whether or not
\* a signature header is present
client_lookup_unsigned(m) ==
  LET v == IF m.auth.present THEN Some(m.auth.value) ELSE None
      ok == IsSome(v) /\ Unwrap(v).str /\ Unwrap(v).prefix = "Basic "
              /\ Unwrap(v).b64 /\ Unwrap(v).utf8
      client_key == IF ok THEN strip_suffix(Unwrap(v).text, ":") ELSE << >>
  IN [looked |-> ok,
      client |-> IF ok /\ client_key \in DOMAIN clients
                   THEN Some(client_key) ELSE None]

\* validate_signature, lines 73-91: the client named by the Authorization
\* header; looked says whether config.clients.get was called
client_lookup(m) ==
  LET has_sig == m.sig.present
      v == IF m.auth.present /\ has_sig THEN Some(m.auth.value) ELSE None
      text == IF IsSome(v) /\ Unwrap(v).str THEN v ELSE None
      b64 == IF IsSome(text) /\ Unwrap(text).prefix = "Basic " THEN text ELSE None
      raw == IF IsSome(b64) /\ Unwrap(b64).b64 THEN b64 ELSE None
      client == IF IsSome(raw) /\ Unwrap(raw).utf8
                  THEN Some(Unwrap(raw).text) ELSE None
      client_key == IF IsSome(client) THEN strip_suffix(Unwrap(client), ":")
                    ELSE << >>
  IN [looked |-> IsSome(client),
      client |-> IF IsSome(client) /\ client_key \in DOMAIN clients
                   THEN Some(client_key) ELSE None]

\* faulty variant of signature_matches: the hex digits are compared without
\* regard to case
signature_matches_anycase(m, expected) ==
  /\ m.sig.present
  /\ m.sig.value.str
  /\ m.sig.value.prefix = expected.prefix
  /\ m.sig.value.mac = expected.mac

\* faulty variant of signature_matches: any readable signature header passes
signature_matches_present(m, expected) ==
  /\ m.sig.present
  /\ m.sig.value.str

\* validate_signature, lines 126-143: the header against the expected text
signature_matches(m, expected) ==
  LET signature == IF m.sig.present /\ m.sig.value.str
                     THEN Some(m.sig.value) ELSE None
  IN signature = Some(expected)

\* the digest of a MAC as lower-case hex digits, shortened to two digits that
\* differ between the MACs the requests can carry
hex_digest(mac) ==
  CASE mac = HMAC(<< >>, "s3cret") -> <<"a", "b">>
    [] mac = HMAC(<<"x">>, "s3cret") -> <<"a", "7">>
    [] mac = HMAC(<< >>, "hunter2") -> <<"3", "b">>
    [] mac = HMAC(<<"x">>, "hunter2") -> <<"3", "c">>
    [] OTHER -> <<"0", "0">>

to_upper(d) ==
  CASE d = "a" -> "A" [] d = "b" -> "B" [] d = "c" -> "C" [] OTHER -> d

\* the bytes of a signature text
sig_bytes(v) ==
  LET digits == hex_digest(v.mac) IN
  (IF v.prefix = "sha256=" THEN <<"s", "h", "a", "2", "5", "6", "=">> ELSE << >>)
    \o (IF v.hexcase = "upper"
          THEN [i \in 1..Len(digits) |-> to_upper(digits[i])]
          ELSE digits)

\* str's PartialEq: the lengths are compared, then the bytes from the front
\* up to and including the first pair that differs; the result is the number
\* of byte pairs looked at
str_eq_steps(a, b) ==
  IF Len(a) # Len(b) THEN 0
  ELSE LET diff == {i \in 1..Len(a) : a[i] # b[i]} IN
       IF diff = {} THEN Len(a)
       ELSE CHOOSE i \in diff : \A j \in diff : i <= j

\* validate_signature, line 138: Option<&str> == Option<&str>
compare_steps(m, expected) ==
  IF m.sig.present /\ m.sig.value.str
    THEN str_eq_steps(sig_bytes(m.sig.value), sig_bytes(expected))
    ELSE 0

\* validate_signature: the Authed extension it inserts (None: none inserted)
validate_signature(m) ==
  LET found == client_lookup(m) IN
  IF ~IsSome(found.client)
    THEN [looked |-> found.looked, authed |-> None, steps |-> 0]
  ELSE IF ~m.body.ok THEN [looked |-> TRUE, authed |-> None, steps |-> 0]
  ELSE LET client == clients[Unwrap(found.client)]
           expected == expected_signature(m.body.bytes, client.secret)
       IN [looked |-> TRUE,
           authed |-> IF signature_matches(m, expected)
                        THEN found.client ELSE None,
           steps |-> compare_steps(m, expected)]

\* faulty variant of permitted: the action is looked for in every client's
\* permission set
permitted_any(client, action) ==
  \E c \in DOMAIN clients : action \in clients[c].permissions

\* Dispatcher::dispatch, line 170
permitted(client, action) == action \in clients[client].permissions

\* Dispatcher::dispatch, lines 172-183: the bytes write_all is given
dispatch_line(client, action) ==
  CommandDisplay([action |-> action, project |-> clients[client].project])
    \o <<"\n">>

\* faulty variant of status_of: only an I/O failure is answered 500, a
\* Timeout is answered like a success
status_of_timeout_ok(result) == IF result = "BadPipe" THEN 500 ELSE 200

\* impl IntoResponse for Result<(), DispatchError>
status_of(result) == IF result = "Ok" THEN 200 ELSE 500

\* faulty variant of unpermitted_result: a missing permission is an error
unpermitted_denied == "Denied"

\* Dispatcher::dispatch, lines 192-194: what dispatch returns when the client
\* lacks the action
unpermitted_result == "Ok"

\* One request through validate_signature, Authed::from_request, deploy and
\* Dispatcher::dispatch, up to the point where dispatch awaits the pipe.
\* (requests are numbered in the order they arrive)
Request(r, m) ==
  /\ req[r].st = "idle"
  /\ ses[r].phase = "idle"
  /\ \A q \in Reqs : q < r => req[q].st # "idle"
  /\ LET v == validate_signature(m)
         base == [IdleReq EXCEPT !.msg = m, !.looked = v.looked,
                                 !.authed = v.authed, !.steps = v.steps,
                                 !.replay = \E q \in Reqs :
                                               /\ req[q].msg = m
                                               /\ ses[q].result = "Ok"
                                               /\ q \in handled]
     IN IF ~IsSome(v.authed)
          THEN /\ req' = [req EXCEPT ![r] =
                            [base EXCEPT !.st = "done", !.resp = 401]]
               /\ ses' = ses
          ELSE IF ~permitted(Unwrap(v.authed), "Deploy")
            THEN /\ req' = [req EXCEPT ![r] =
                              [base EXCEPT !.st = "done",
                                           !.resp = status_of(unpermitted_result),
                                           !.result = unpermitted_result]]
                 /\ ses' = ses
            ELSE /\ req' = [req EXCEPT ![r] = [base EXCEPT !.st = "inflight"]]
                 /\ ses' = [ses EXCEPT ![r] =
                              [phase |-> "open", owner |-> "server",
                               line |-> dispatch_line(Unwrap(v.authed), "Deploy"),
                               result |-> "none", after |-> {},
                               appended |-> 0]]
  /\ UNCHANGED <<codec, clients, pipeVars, pathExists, execVars>>


\* faulty variant of Timeout: the elapsed deadline is swallowed and the caller
\* is told the send succeeded
TimeoutSwallowed(r) ==
  /\ req[r].st = "inflight"
  /\ req' = [req EXCEPT ![r].st = "done", ![r].result = "Ok",
                        ![r].resp = status_of("Ok")]
  /\ UNCHANGED <<codec, clients, ses, pipeVars, pathExists, execVars>>

\* tokio::time::timeout(Duration::from_secs(1), dispatch): the deadline passes
\* while the send is pending; the blocking operation already started goes on
Timeout(r) ==
  /\ req[r].st = "inflight"
  /\ req' = [req EXCEPT ![r].st = "done", ![r].result = "Timeout",
                        ![r].resp = status_of("Timeout")]
  /\ UNCHANGED <<codec, clients, ses, pipeVars, pathExists, execVars>>

(* -------------------------------- pipe -------------------------------- *)

\* what other local writers append to the FIFO (it is not authenticated)
Lines ==
  { <<"deploy", " ", "site", "\n">>,
    <<"deploy", " ", "..", "\n">>,
    <<"deploy", " ", "/", "bin", "\n">>,
    <<"garbage", "\n">>,
    <<"0xFF", "\n">> }

ChunkIds(buf) == {buf[i].ses : i \in 1..Len(buf)}

\* for each "\n" of the chunks, in order, the session that wrote it
RECURSIVE ChunkOwners(_)
ChunkOwners(buf) ==
  IF buf = << >> THEN << >>
  ELSE LET b == buf[1].bytes
           n == Cardinality({i \in 1..Len(b) : b[i] = "\n"})
       IN [i \in 1..n |-> buf[1].ses] \o ChunkOwners(Tail(buf))

RECURSIVE ChunkBytes(_)
ChunkBytes(buf) ==
  IF buf = << >> THEN << >> ELSE buf[1].bytes \o ChunkBytes(Tail(buf))

\* the answer a finished send gives the request that awaits it, if it still does
Answer(r, result) ==
  IF r \in Reqs /\ req[r].st = "inflight"
    THEN [req EXCEPT ![r].st = "done", ![r].result = result,
                     ![r].resp = status_of(result)]
    ELSE req

\* the future of a timed-out dispatch was dropped
Abandoned(w) == ses[w].owner = "server" /\ w \in Reqs /\ req[w].st = "done"

\* another local process starts a writer session: open, append, close.
\* These sessions are disjoint: one starts after the previous one has closed.
SessionStart(w, line) ==
  /\ ses[w].phase = "idle"
  /\ \A v \in Sessions : v < w => ses[v].phase = "closed"
  /\ w \in Reqs => req[w].st = "idle"
  /\ ses' = [ses EXCEPT ![w] = [phase |-> "open", owner |-> "other",
                                line |-> line, result |-> "none",
                                after |-> {}, appended |-> 0]]
  /\ UNCHANGED <<codec, clients, req, pipeVars, pathExists, execVars>>

\* OpenOptions::new().append(true).open(&self.pipe): open(2) of a FIFO for
\* writing returns once a read end is open; a dropped future closes the file
\* as soon as it is opened
SessionOpen(w) ==
  /\ ses[w].phase = "open"
  /\ IF ~pathExists
       THEN /\ ses' = [ses EXCEPT ![w].phase = "closed", ![w].result = "BadPipe"]
            /\ req' = Answer(w, "BadPipe")
            /\ UNCHANGED <<pipeWriters, wseen>>
       ELSE /\ pipeReaders > 0
            /\ wseen' = TRUE
            /\ req' = req
            /\ IF Abandoned(w)
                 THEN /\ ses' = [ses EXCEPT ![w].phase = "closed"]
                      /\ pipeWriters' = pipeWriters
                 ELSE /\ ses' = [ses EXCEPT ![w].phase = "write"]
                      /\ pipeWriters' = pipeWriters + 1
  /\ UNCHANGED <<codec, clients, pipeReaders, pipeBuf, lost, pathExists, execVars>>

\* faulty variant of SessionWrite: the line is written a second time before
\* the file is closed
SessionWrite_twice(w) ==
  /\ ses[w].phase = "write"
  /\ pipeWriters' = pipeWriters - 1
  /\ IF pipeReaders = 0
       THEN /\ ses' = [ses EXCEPT ![w].phase = "closed", ![w].result = "BadPipe"]
            /\ req' = Answer(w, "BadPipe")
            /\ IF pipeWriters = 1
                 THEN pipeBuf' = << >> /\ lost' = lost \cup ChunkIds(pipeBuf)
                 ELSE UNCHANGED <<pipeBuf, lost>>
       ELSE /\ ses' = [ses EXCEPT ![w].phase = "closed", ![w].result = "Ok",
                                  ![w].after = survived,
                                  ![w].appended = ses[w].appended + 2]
            /\ req' = Answer(w, "Ok")
            /\ pipeBuf' = pipeBuf \o <<[ses |-> w, bytes |-> ses[w].line],
                                        [ses |-> w, bytes |-> ses[w].line]>>
            /\ lost' = lost
  /\ UNCHANGED <<codec, clients, pipeReaders, wseen, pathExists, execVars>>

\* pipe.write_all(..), pipe.flush() and the drop of the file: write(2) fails
\* with EPIPE when no read end is open, else appends the line in one piece;
\* closing the last end of the FIFO discards what is still buffered in it
SessionWrite(w) ==
  /\ ses[w].phase = "write"
  /\ pipeWriters' = pipeWriters - 1
  /\ IF pipeReaders = 0
       THEN /\ ses' = [ses EXCEPT ![w].phase = "closed", ![w].result = "BadPipe"]
            /\ req' = Answer(w, "BadPipe")
            /\ IF pipeWriters = 1
                 THEN pipeBuf' = << >> /\ lost' = lost \cup ChunkIds(pipeBuf)
                 ELSE UNCHANGED <<pipeBuf, lost>>
       ELSE /\ ses' = [ses EXCEPT ![w].phase = "closed", ![w].result = "Ok",
                                  ![w].after = survived,
                                  ![w].appended = ses[w].appended + 1]
            /\ req' = Answer(w, "Ok")
            /\ pipeBuf' = Append(pipeBuf, [ses |-> w, bytes |-> ses[w].line])
            /\ lost' = lost
  /\ UNCHANGED <<codec, clients, pipeReaders, wseen, pathExists, execVars>>

\* the FIFO's path is removed or made unreadable by its owner
EnvUnlink ==
  /\ pathExists
  /\ pathExists' = FALSE
  /\ UNCHANGED <<codec, clients, req, ses, pipeVars, execVars>>

(* ------------------------------ executor ------------------------------ *)

\* faulty variant of projects: the set also holds projects no client has
projects_any ==
  {clients[c].project : c \in DOMAIN clients}
    \cup {<<"site">>, <<"..">>, <<"/", "bin">>}

\* the project set main derives from config.clients
projects == {clients[c].project : c \in DOMAIN clients}

\* the components of a path string: the runs of tokens between "/" tokens
RECURSIVE Components(_, _)
Components(s, cur) ==
  IF s = << >> THEN (IF cur = << >> THEN << >> ELSE <<cur>>)
  ELSE IF s[1] = "/"
    THEN (IF cur = << >> THEN << >> ELSE <<cur>>) \o Components(Tail(s), << >>)
    ELSE Components(Tail(s), Append(cur, s[1]))

\* PathBuf::push: an absolute argument replaces the path, another extends it
push(path, s) ==
  IF Len(s) > 0 /\ s[1] = "/"
    THEN [abs |-> TRUE, comps |-> Components(s, << >>)]
    ELSE [abs |-> path.abs, comps |-> path.comps \o Components(s, << >>)]

\* main, lines 60-62
script_path(command) ==
  push(push(scripts_dir, command.project), ActionDisplay(command.action))

\* the file the operating system resolves a path to (no symbolic links)
RECURSIVE Resolve(_, _)
Resolve(comps, acc) ==
  IF comps = << >> THEN acc
  ELSE IF comps[1] = <<"..">>
    THEN Resolve(Tail(comps),
                 IF acc = << >> THEN acc ELSE SubSeq(acc, 1, Len(acc) - 1))
    ELSE IF comps[1] = <<".">> THEN Resolve(Tail(comps), acc)
    ELSE Resolve(Tail(comps), Append(acc, comps[1]))

IsPrefix(a, b) == Len(a) <= Len(b) /\ SubSeq(b, 1, Len(a)) = a

InsideScriptsDir(path) ==
  /\ path.abs
  /\ IsPrefix(Resolve(scripts_dir.comps, << >>), Resolve(path.comps, << >>))

\* BufRead::lines: the next line of the buffer, without its "\n" or "\r\n"
NextLine(buf) ==
  LET i == FirstIndex(buf, "\n")
      raw == IF i = 0 THEN buf ELSE SubSeq(buf, 1, i - 1)
  IN strip_suffix(raw, "\r")

RestAfterLine(buf) ==
  LET i == FirstIndex(buf, "\n")
  IN IF i = 0 THEN << >> ELSE SubSeq(buf, i + 1, Len(buf))

\* read(2) reports end of file: nothing buffered and no write end open
AtEof == pipeBuf = << >> /\ pipeWriters = 0

\* main, lines 34-37: open(2) of the FIFO for reading begins; unwrap panics
\* when it fails
ExecOpen ==
  /\ pc = "start"
  /\ IF ~pathExists
       THEN /\ pc' = "dead"
            /\ UNCHANGED <<pipeReaders, wseen>>
       ELSE /\ pc' = "opening"
            /\ pipeReaders' = pipeReaders + 1
            /\ wseen' = (pipeWriters > 0)
  /\ UNCHANGED <<codec, clients, req, ses, pipeWriters, pipeBuf, lost, pathExists,
                 rbuf, rown, survived, child, execPath, log, delivered,
                 handled>>

\* open(2) for reading returns once a write end is or has been open
ExecOpened ==
  /\ pc = "opening"
  /\ wseen
  /\ pc' = "reading"
  /\ UNCHANGED <<codec, clients, req, ses, pipeVars, pathExists,
                 rbuf, rown, survived, child, execPath, log, delivered,
                 handled>>

\* BufReader fills its buffer: read(2) takes what the FIFO holds, blocks while
\* it is empty and a write end is open, and reports end of file otherwise
ExecRead ==
  /\ pc = "reading"
  /\ FirstIndex(rbuf, "\n") = 0
  /\ IF pipeBuf # << >>
       THEN /\ rbuf' = rbuf \o ChunkBytes(pipeBuf)
            /\ rown' = rown \o ChunkOwners(pipeBuf)
            /\ delivered' = delivered \cup ChunkIds(pipeBuf)
            /\ pipeBuf' = << >>
            /\ UNCHANGED <<pc, survived>>
       ELSE /\ pipeWriters = 0
            /\ rbuf = << >>
            /\ pc' = "eof"
            /\ survived' = survived \cup {"eof"}
            /\ UNCHANGED <<rbuf, rown, delivered, pipeBuf>>
  /\ UNCHANGED <<codec, clients, req, ses, pipeReaders, pipeWriters, wseen, lost,
                 pathExists, child, execPath, log, handled>>

\* faulty variant of ExecLine: the process is spawned and not waited for
ExecLine_nowait(spawned, hang) ==
  /\ pc = "reading"
  /\ \/ FirstIndex(rbuf, "\n") # 0
     \/ rbuf # << >> /\ AtEof
  /\ rbuf' = RestAfterLine(rbuf)
  /\ rown' = IF rown = << >> THEN rown ELSE Tail(rown)
  /\ handled' = IF rown = << >> THEN handled ELSE handled \cup {Head(rown)}
  /\ LET line == NextLine(rbuf)
         command == from_str(line)
     IN IF \E i \in 1..Len(line) : line[i] = "0xFF"
          THEN /\ log' = "read_error"
               /\ UNCHANGED <<pc, child, execPath, survived>>
        ELSE IF ~IsSome(command)
          THEN /\ log' = "parse_error"
               /\ survived' = survived \cup {"parse_error"}
               /\ UNCHANGED <<pc, child, execPath>>
        ELSE IF Unwrap(command).project \notin projects
          THEN /\ log' = "unconfigured_project"
               /\ survived' = survived \cup {"unconfigured_project"}
               /\ UNCHANGED <<pc, child, execPath>>
        ELSE LET path == script_path(Unwrap(command)) IN
             /\ execPath' = Some(path)
             /\ survived' = survived
             /\ IF spawned
                  THEN /\ pc' = pc
                       /\ child' = Append(child, [path |-> path, hang |-> hang])
                       /\ log' = "executing"
                  ELSE /\ pc' = pc
                       /\ child' = child
                       /\ log' = "spawn_error"
  /\ UNCHANGED <<codec, clients, req, ses, pipeVars, pathExists, delivered>>

\* main, lines 40-78: one turn of `for line in pipe.lines()`, up to the call
\* of command.status(); spawned says whether the process could be started and
\* hang whether it is one that never exits
ExecLine(spawned, hang) ==
  /\ pc = "reading"
  /\ \/ FirstIndex(rbuf, "\n") # 0
     \/ rbuf # << >> /\ AtEof
  /\ rbuf' = RestAfterLine(rbuf)
  /\ rown' = IF rown = << >> THEN rown ELSE Tail(rown)
  /\ handled' = IF rown = << >> THEN handled ELSE handled \cup {Head(rown)}
  /\ LET line == NextLine(rbuf)
         command == from_str(line)
     IN IF \E i \in 1..Len(line) : line[i] = "0xFF"
          THEN /\ log' = "read_error"
               /\ UNCHANGED <<pc, child, execPath, survived>>
        ELSE IF ~IsSome(command)
          THEN /\ log' = "parse_error"
               /\ survived' = survived \cup {"parse_error"}
               /\ UNCHANGED <<pc, child, execPath>>
        ELSE IF Unwrap(command).project \notin projects
          THEN /\ log' = "unconfigured_project"
               /\ survived' = survived \cup {"unconfigured_project"}
               /\ UNCHANGED <<pc, child, execPath>>
        ELSE LET path == script_path(Unwrap(command)) IN
             /\ execPath' = Some(path)
             /\ survived' = survived
             /\ IF spawned
                  THEN /\ pc' = "waiting"
                       /\ child' = Some([path |-> path, hang |-> hang])
                       /\ log' = "executing"
                  ELSE /\ pc' = pc
                       /\ child' = child
                       /\ log' = "spawn_error"
  /\ UNCHANGED <<codec, clients, req, ses, pipeVars, pathExists, delivered>>

\* command.status() returns: the process exited with this status
ExecExit(status) ==
  /\ pc = "waiting"
  /\ ~Unwrap(child).hang
  /\ pc' = "reading"
  /\ child' = None
  /\ log' = IF status = 0 THEN "exit_ok" ELSE "exit_failed"
  /\ UNCHANGED <<codec, clients, req, ses, pipeVars, pathExists,
                 rbuf, rown, survived, execPath, delivered, handled>>

\* the for loop ends at end of file and the reader is dropped: close(2);
\* closing the last end of the FIFO discards what is still buffered in it
ExecClose ==
  /\ pc = "eof"
  /\ pc' = "start"
  /\ pipeReaders' = pipeReaders - 1
  /\ IF pipeWriters = 0
       THEN pipeBuf' = << >> /\ lost' = lost \cup ChunkIds(pipeBuf)
       ELSE UNCHANGED <<pipeBuf, lost>>
  /\ UNCHANGED <<codec, clients, req, ses, pipeWriters, wseen, pathExists,
                 rbuf, rown, survived, child, execPath, log, delivered,
                 handled>>

(* --------------------------- specifications --------------------------- *)

Executor ==
  \/ ExecOpen
  \/ ExecOpened
  \/ ExecRead
  \/ \E spawned \in BOOLEAN, hang \in BOOLEAN : ExecLine(spawned, hang)
  \/ \E status \in {0, 1} : ExecExit(status)
  \/ ExecClose

\* the server is the only writer of the pipe
Next ==
  \/ \E r \in Reqs, m \in Requests : Request(r, m)
  \/ \E r \in Reqs : Timeout(r)
  \/ \E w \in Sessions : SessionOpen(w)
  \/ \E w \in Sessions : SessionWrite(w)
  \/ Executor

Spec == Init /\ [][Next]_vars

\* the executor and the pipe with any local writers
ExecNext ==
  \/ \E w \in Sessions, line \in Lines : SessionStart(w, line)
  \/ \E w \in Sessions : SessionOpen(w)
  \/ \E w \in Sessions : SessionWrite(w)
  \/ EnvUnlink
  \/ Executor

ExecSpec == Init /\ [][ExecNext]_vars

\* the executor is a running process and the writers' system calls return
\* when they can; a script that never exits is never waited out
FairExecSpec ==
  /\ ExecSpec
  /\ WF_vars(Executor)
  /\ \A w \in Sessions : WF_vars(SessionOpen(w)) /\ WF_vars(SessionWrite(w))

(* ------------------------------- claims ------------------------------- *)

\* the request has been through the middleware
Handled(r) == req[r].st # "idle"

\* the request's Authorization header names a client of the registry
NamesKnownClient(m) ==
  /\ m.auth.present
  /\ m.auth.value.str
  /\ m.auth.value.prefix = "Basic "
  /\ m.auth.value.b64
  /\ m.auth.value.utf8
  /\ strip_suffix(m.auth.value.text, ":") \in DOMAIN clients

NamedClient(m) == clients[strip_suffix(m.auth.value.text, ":")]

\* C1: dispatch starts a send to the channel exactly when the requested action
\* is in the authenticated client's own permission set, whatever the other
\* clients are permitted; no line lies in the channel for a request whose
\* client lacks the action.
C1_DispatchIffPermitted ==
  /\ \A r \in Reqs :
       Handled(r) /\ IsSome(req[r].authed) =>
         ((ses[r].phase # "idle")
            <=> ("Deploy" \in clients[Unwrap(req[r].authed)].permissions))
  /\ \A i \in 1..Len(pipeBuf) :
       LET r == pipeBuf[i].ses IN
         /\ IsSome(req[r].authed)
         /\ "Deploy" \in clients[Unwrap(req[r].authed)].permissions

\* C1: in one run, a client that lacks the action was answered without a send
\* although another client holds it, and the client that holds it got a send
C1_Witness ==
  \E r1, r2 \in Reqs :
    /\ req[r1].st = "done" /\ IsSome(req[r1].authed)
    /\ "Deploy" \notin clients[Unwrap(req[r1].authed)].permissions
    /\ ses[r1].phase = "idle"
    /\ IsSome(req[r2].authed)
    /\ "Deploy" \in clients[Unwrap(req[r2].authed)].permissions
    /\ ses[r2].phase # "idle"

\* C2: a request without the X-Hub-Signature-256 header is never given an
\* authenticated identity, its client is never looked up, it is answered 401
\* and it starts no send, whatever its Authorization header and body are.
C2_UnsignedNeverAuthenticated ==
  \A r \in Reqs :
    Handled(r) /\ ~req[r].msg.sig.present =>
      /\ req[r].authed = None
      /\ ~req[r].looked
      /\ req[r].resp = 401
      /\ ses[r].phase = "idle"

\* C2: an unsigned request that carries a valid credential of a client has
\* been answered
C2_Witness ==
  \E r \in Reqs :
    /\ req[r].st = "done"
    /\ ~req[r].msg.sig.present
    /\ NamesKnownClient(req[r].msg)
    /\ req[r].msg.body.ok

\* C3: a request that names a known client and carries a signature header is
\* given the identity exactly when the header is "sha256=" followed by the
\* lowercase hex of the MAC of the body bytes it was received with under that
\* client's secret (a body that cannot be read has no such bytes); the same
\* header with another body, or signed with another secret, is rejected.
C3_AcceptIffExactMac ==
  /\ \A r \in Reqs :
       Handled(r) /\ req[r].msg.sig.present /\ NamesKnownClient(req[r].msg) =>
         (IsSome(req[r].authed) <=>
            /\ req[r].msg.body.ok
            /\ req[r].msg.sig.value =
                 [str |-> TRUE, prefix |-> "sha256=", hexcase |-> "lower",
                  mac |-> [msg |-> req[r].msg.body.bytes,
                           key |-> NamedClient(req[r].msg).secret]])
  /\ \A r1, r2 \in Reqs :
       /\ Handled(r1) /\ Handled(r2)
       /\ IsSome(req[r1].authed)
       /\ req[r2].msg.sig = req[r1].msg.sig
       /\ \/ req[r2].msg.body # req[r1].msg.body
          \/ /\ NamesKnownClient(req[r2].msg)
             /\ NamedClient(req[r2].msg).secret # NamedClient(req[r1].msg).secret
       => req[r2].authed = None

\* C3: a signed request was accepted, and the same header with the same
\* credential over another body was rejected
C3_Witness ==
  \E r1, r2 \in Reqs :
    /\ IsSome(req[r1].authed)
    /\ Handled(r2)
    /\ req[r2].msg.auth = req[r1].msg.auth
    /\ req[r2].msg.sig = req[r1].msg.sig
    /\ req[r2].msg.body.ok
    /\ req[r2].msg.body # req[r1].msg.body
    /\ req[r2].authed = None

\* C4: a byte-identical copy of a request whose command was already delivered
\* to the executor causes no further line to be appended to the channel.
C4_ReplayAppendsNothing ==
  \A r \in Reqs : req[r].replay => ses[r].result # "Ok"

\* C5: the path handed to process execution is never outside scripts_dir,
\* whatever the configured project set contains.
C5_PathInsideScriptsDir ==
  IsSome(execPath) => InsideScriptsDir(Unwrap(execPath))

\* the session's send returned Ok to its caller
SendOk(w) ==
  /\ ses[w].result = "Ok"
  /\ ses[w].owner = "server" => req[w].result = "Ok"

\* the session's line was appended to the channel and not discarded from it
Arrived(w) == ses[w].result = "Ok" /\ w \notin lost

\* the session's line is one the executor runs a script for
ValidLine(w) ==
  LET command == from_str(NextLine(ses[w].line))
  IN IsSome(command) /\ Unwrap(command).project \in projects

\* C6: a line that has arrived in the channel is eventually taken up by the
\* loop, even if the script started for an earlier line never exits.
C6_NoStarvation ==
  (\E w \in Sessions : Arrived(w) /\ w \notin handled)
    ~> (\A w \in Sessions : Arrived(w) => w \in handled)

\* C7: a valid line written after the loop has been through an undecodable
\* line, an end of stream or an unknown-project line is not discarded unread.
C7_LaterValidLinesKept ==
  \A w \in Sessions :
    ses[w].result = "Ok" /\ ValidLine(w) /\ ses[w].after # {} => w \notin lost

\* C8: once the loop has run, nothing terminates the process.
C8_LoopNeverTerminates == ~(pc = "dead" /\ survived # {})

\* C9: no line whose send returned Ok is lost across a close/reopen boundary.
C9_NoWrittenLineLost == \A w \in Sessions : SendOk(w) => w \notin lost

\* C10: a send that is still pending can always be ended by its deadline, a
\* request answered while its send had not completed was answered Timeout
\* (never Ok), and while a send is pending the next request can be served.
C10_DeadlineBoundsSend ==
  \A r \in Reqs :
    /\ req[r].st = "inflight" => ENABLED Timeout(r)
    /\ req[r].st = "done" /\ ses[r].phase \in {"open", "write"}
         => req[r].result = "Timeout" /\ req[r].resp = 500
    /\ req[r].result = "Ok" /\ ses[r].owner = "server" => ses[r].result = "Ok"
    /\ \A q \in Reqs :
         req[r].st = "inflight" /\ q = r + 1 /\ req[q].st = "idle"
           => ENABLED Request(q, NoRequest)

\* C10: with no reader on the transport a permitted client's request was
\* answered Timeout while its open was still blocked, and a later request was
\* answered meanwhile
C10_Witness ==
  \E r, q \in Reqs :
    /\ req[r].result = "Timeout"
    /\ ses[r].phase = "open"
    /\ pipeReaders = 0
    /\ q > r
    /\ req[q].st = "done"

(* --------------------- Display and FromStr alone ---------------------- *)

\* format!("{}", cmd) for a Command of any project
CodecEncode(cmd) ==
  /\ codec.st = "idle"
  /\ codec' = [codec EXCEPT !.st = "encoded", !.kind = "command",
                             !.cmd = cmd, !.text = CommandDisplay(cmd)]
  /\ UNCHANGED <<clients, req, ses, pipeVars, pathExists, execVars>>

\* a line of any content arrives for parsing
CodecLine(line) ==
  /\ codec.st = "idle"
  /\ codec' = [codec EXCEPT !.st = "encoded", !.kind = "line", !.text = line]
  /\ UNCHANGED <<clients, req, ses, pipeVars, pathExists, execVars>>

\* line.parse::<Command>()
CodecDecode ==
  /\ codec.st = "encoded"
  /\ codec' = [codec EXCEPT !.st = "decoded", !.parsed = from_str(codec.text)]
  /\ UNCHANGED <<clients, req, ses, pipeVars, pathExists, execVars>>

CodecNext ==
  \/ \E a \in Action, p \in Texts : CodecEncode([action |-> a, project |-> p])
  \/ \E l \in Texts : CodecLine(l)
  \/ CodecDecode

CodecSpec == Init /\ [][CodecNext]_vars

(* ------------------------- claims, continued -------------------------- *)

\* the request names a configured client and carries the signature header
\* that validate_signature computes for its body under that client's secret
ValidlySigned(m) ==
  /\ NamesKnownClient(m)
  /\ m.body.ok
  /\ m.sig.present
  /\ m.sig.value =
       [str |-> TRUE, prefix |-> "sha256=", hexcase |-> "lower",
        mac |-> [msg |-> m.body.bytes, key |-> NamedClient(m).secret]]

\* C11: every answered POST /deploy has exactly one of three outcomes: 401
\* exactly when no identity was attached; 500 exactly when the identity was
\* attached, the action is permitted and the send ended in Timeout or an I/O
\* failure; 200 in every other case.
C11_ThreeOutcomes ==
  \A r \in Reqs :
    req[r].st = "done" =>
      LET attached == IsSome(req[r].authed)
          allowed == attached
                       /\ "Deploy" \in clients[Unwrap(req[r].authed)].permissions
          failed == req[r].result \in {"Timeout", "BadPipe"}
      IN /\ req[r].resp \in {200, 401, 500}
         /\ (req[r].resp = 401) <=> ~attached
         /\ (req[r].resp = 500) <=> (allowed /\ failed)
         /\ (req[r].resp = 200) <=> (attached /\ ~(allowed /\ failed))
         /\ req[r].result = "BadPipe" => ses[r].result = "BadPipe"
         /\ failed => allowed

\* C11: one request was answered 500 after an I/O failure of its send, after
\* another had been answered 200
C11_Witness ==
  \E r, q \in Reqs :
    /\ req[r].st = "done" /\ req[r].result = "BadPipe" /\ req[r].resp = 500
    /\ req[q].st = "done" /\ req[q].resp = 200

\* C12: a correctly signed request of a client that lacks the deploy
\* permission is authenticated, starts no send, and is answered like a
\* permitted request whose send succeeded.
C12_DenialLooksLikeSuccess ==
  \A r \in Reqs :
    Handled(r) /\ ValidlySigned(req[r].msg)
      /\ "Deploy" \notin NamedClient(req[r].msg).permissions =>
        /\ IsSome(req[r].authed)
        /\ req[r].st = "done"
        /\ ses[r].phase = "idle"
        /\ req[r].resp = 200
        /\ \A q \in Reqs :
             req[q].st = "done" /\ ses[q].owner = "server"
               /\ req[q].result = "Ok" => req[q].resp = req[r].resp

\* C12: a client without the permission and a client with it were both
\* answered, the second after its line was written
C12_Witness ==
  \E r, q \in Reqs :
    /\ req[r].st = "done" /\ IsSome(req[r].authed) /\ ses[r].phase = "idle"
    /\ req[q].st = "done" /\ req[q].result = "Ok" /\ ses[q].result = "Ok"
    /\ req[q].resp = req[r].resp

\* C13: a Command whose project has no newline and no leading space reads
\* back from its Display text as the same action and project; a line with no
\* space, or whose text before the first space is not an action's name, is
\* rejected.
C13_RoundTrip ==
  codec.st = "decoded" =>
    LET p == codec.cmd.project
        t == codec.text
        sp == {i \in 1..Len(t) : t[i] = " "}
        first == SubSeq(t, 1, (CHOOSE i \in sp : \A j \in sp : i <= j) - 1)
    IN /\ ( /\ codec.kind = "command"
            /\ \A i \in 1..Len(p) : p[i] # "\n"
            /\ (p = << >> \/ p[1] # " ") )
            => codec.parsed = Some(codec.cmd)
       /\ ( /\ codec.kind = "line"
            /\ \/ sp = {}
               \/ first \notin {ActionDisplay(a) : a \in Action} )
            => codec.parsed = None

\* C13: a Command whose project has a space inside was read back unchanged
C13_Witness ==
  /\ codec.st = "decoded"
  /\ codec.kind = "command"
  /\ codec.cmd.project = <<"a", " ", "a">>
  /\ codec.parsed = Some(codec.cmd)

\* C14: every authenticated and permitted request whose send returned Ok has
\* put exactly one line on the channel, "deploy <project>" with the project
\* configured for the authenticated client, whatever its body and other
\* headers were, and for every configured project string.
C14_ExactlyOneLine ==
  \A r \in Reqs :
    ses[r].owner = "server" /\ ses[r].result = "Ok" =>
      LET line == ses[r].line
          project == clients[Unwrap(req[r].authed)].project
      IN /\ line = <<"deploy", " ">> \o project \o <<"\n">>
         /\ Cardinality({i \in 1..Len(line) : line[i] = "\n"}) = 1

\* the Authorization header decodes to a name that config.clients lacks
NamesUnknownClient(m) ==
  /\ m.sig.present
  /\ m.auth.present
  /\ m.auth.value.str /\ m.auth.value.prefix = "Basic "
  /\ m.auth.value.b64 /\ m.auth.value.utf8
  /\ strip_suffix(m.auth.value.text, ":") \notin DOMAIN clients

\* C15: two requests with the same signature header and body, one naming a
\* configured client and one naming a client that does not exist, neither
\* validly signed, are both passed to the handler without an identity and
\* both answered 401, and neither writes to the channel.
C15_NoExistenceOracle ==
  \A r, q \in Reqs :
    ( /\ Handled(r) /\ Handled(q)
      /\ req[r].msg.sig = req[q].msg.sig
      /\ req[r].msg.body = req[q].msg.body
      /\ NamesKnownClient(req[r].msg) /\ ~ValidlySigned(req[r].msg)
      /\ NamesUnknownClient(req[q].msg) )
    => /\ req[r].authed = None /\ req[q].authed = None
       /\ req[r].st = "done" /\ req[q].st = "done"
       /\ req[r].resp = 401 /\ req[q].resp = req[r].resp
       /\ req[r].result = req[q].result
       /\ ses[r].phase = "idle" /\ ses[q].phase = "idle"

\* C15: such a pair of requests was answered, the known client's request
\* having gone through the signature comparison
C15_Witness ==
  \E r, q \in Reqs :
    /\ Handled(r) /\ Handled(q)
    /\ req[r].msg.sig = req[q].msg.sig
    /\ req[r].msg.body = req[q].msg.body
    /\ req[r].msg.body.ok /\ req[r].msg.sig.value.str
    /\ NamesKnownClient(req[r].msg) /\ ~ValidlySigned(req[r].msg)
    /\ NamesUnknownClient(req[q].msg)
    /\ req[r].resp = 401 /\ req[q].resp = 401

\* the request reached the comparison of line 138 with a readable header
Compared(r) ==
  /\ Handled(r)
  /\ NamesKnownClient(req[r].msg)
  /\ req[r].msg.body.ok
  /\ req[r].msg.sig.present /\ req[r].msg.sig.value.str

\* C16: the comparison of the expected signature with the header value is
\* constant-time: for two wrong header values of the expected length,
\* compared with the same expected signature, the number of bytes looked at
\* is the same wherever the first differing byte lies.
C16_ConstantTimeCompare ==
  \A r, q \in Reqs :
    ( /\ Compared(r) /\ Compared(q)
      /\ req[r].msg.auth = req[q].msg.auth
      /\ req[r].msg.body = req[q].msg.body
      /\ req[r].authed = None /\ req[q].authed = None
      /\ Len(sig_bytes(req[r].msg.sig.value))
           = Len(sig_bytes(req[q].msg.sig.value)) )
    => req[r].steps = req[q].steps

\* the executor's loop takes a line out of its buffer in this step
TakesLine == pc = "reading" /\ rbuf' # rbuf /\ Len(rbuf') < Len(rbuf)

\* C17: the executor starts a script only for a decoded command whose project
\* is a project of the registry loaded at startup; a command for any other
\* project is logged and discarded with no process started; the registry, and
\* so the project set, never changes while the loop runs.
C17_OnlyConfiguredProjects ==
  [][ /\ clients' = clients
      /\ projects' = projects
      /\ (child' # child /\ child' # None) => TakesLine
      /\ TakesLine =>
           LET command == from_str(NextLine(rbuf))
               configured == {clients[c].project : c \in DOMAIN clients}
           IN /\ (log' \in {"executing", "spawn_error"} \/ child' # child)
                   => /\ IsSome(command)
                      /\ Unwrap(command).project \in configured
              /\ (IsSome(command) /\ Unwrap(command).project \notin configured)
                   => /\ log' = "unconfigured_project"
                      /\ child' = None /\ child = None
                      /\ execPath' = execPath
                      /\ pc' = "reading" ]_vars

\* C17: a script was started for one line and a later line, for a project no
\* client has, was discarded
C17_Witness ==
  /\ log = "unconfigured_project"
  /\ IsSome(execPath)
  /\ child = None
  /\ pc = "reading"

Range(q) == {q[i] : i \in 1..Len(q)}

\* C19: the executor handles lines one at a time in the order the pipe
\* delivers them: a line is taken up only when no script is running, so the
\* script of a valid line starts after the script of every earlier line has
\* exited or failed to spawn; at most one script runs at any moment; every
\* delivered line is taken up in its turn, and a valid one has its script
\* started (or the spawn fails).
C19_OneAtATimeInOrder ==
  /\ [](/\ Len(child) <= 1
        /\ (pc = "waiting") <=> (child # None)
        /\ delivered = handled \cup Range(rown)
        /\ \A i, j \in 1..Len(rown) : i <= j => rown[i] <= rown[j]
        /\ \A h \in handled : \A i \in 1..Len(rown) : h <= rown[i]
        /\ \A i \in 1..Len(rown) : \A k \in 1..Len(pipeBuf) :
             rown[i] < pipeBuf[k].ses)
  /\ [][TakesLine =>
          /\ child = None
          /\ rown # << >> => /\ handled' = handled \cup {Head(rown)}
                             /\ rown' = Tail(rown)
          /\ LET command == from_str(NextLine(rbuf)) IN
             (IsSome(command) /\ Unwrap(command).project \in projects)
               => /\ log' \in {"executing", "spawn_error"}
                  /\ execPath' = Some(script_path(Unwrap(command)))
                  /\ log' = "executing" => Len(child') = 1]_vars

\* C19: two valid lines of different projects were taken up; the script of
\* the first is over and the script of the second is the one running
C19_Witness ==
  /\ handled = {1, 2}
  /\ ValidLine(1) /\ ValidLine(2)
  /\ ses[1].line # ses[2].line
  /\ pc = "waiting" /\ Len(child) = 1
  /\ execPath = Some(script_path(Unwrap(from_str(NextLine(ses[2].line)))))

\* C20: with the server as the only writer of the pipe and one registry for
\* both processes, every script the executor starts is the script of the
\* project of a client that has the deploy permission and under whose secret
\* some received request was validly signed; no request starts the script of
\* another client's project.
C20_EndToEndAuthorization ==
  IsSome(execPath) =>
    \E r \in Reqs :
      /\ Handled(r)
      /\ ValidlySigned(req[r].msg)
      /\ "Deploy" \in NamedClient(req[r].msg).permissions
      /\ Unwrap(execPath) =
           script_path([action |-> "Deploy",
                        project |-> NamedClient(req[r].msg).project])

====
